---- MODULE Spec2Model ----
(***************************************************************************)
(* rkyv_util: OwnedArchive<T, C> over the StableBytes / StableBytesMut     *)
(* containers, for T = ArchiveStub { hello: u8, world: u64 }.              *)
(*                                                                         *)
(* A byte buffer is a heap cell: its contents, the address of its first    *)
(* byte (modulo 16) and the number of container handles that refer to it.  *)
(* A container is a handle (kind, buffer); a wrapper is a container plus   *)
(* bookkeeping that the code does not store (how the wrapper was made and  *)
(* how often the validator ran for it).                                    *)
(***************************************************************************)
EXTENDS Integers, Sequences, FiniteSets, TLC

\* ------------------------------------------------------------------ bounds
MaxWrappers == 2
MaxBufs == 2

\* -------------------------------------------------------- program constants
\* size_of and align_of of ArchivedArchiveStub (#[repr(C)] { u8, u64_le }).
SIZE == 16
ALIGN == 8

\* ------------------------------------------------------------------ inputs
\* The record of the tests, ArchiveStub { hello: 4, world: 5 }, and a second
\* one whose world takes two bytes.
stub == [hello |-> 4, world |-> 5]
wide == [hello |-> 3, world |-> 261]
\* The values stored through get_mut (the tests store 4 and 3 to hello).
Hellos == {3, 4}
Worlds == {5}
\* Buffers handed to the constructors: the serialized record, the same
\* with its last byte cut off, the same behind 8 unrelated bytes, nothing.
\* Addresses (modulo 16) an allocator may place a byte buffer at.
AddrSet == {0, 4}

\* The container types StableBytes is implemented for.
NewKinds == {"Vec", "Box", "AlignedVec", "Arc", "Rc", "Slice"}
MmapKinds == {"Mmap", "MmapMut"}
Kinds == NewKinds \cup MmapKinds
\* StableBytesMut is implemented for these.
MutKinds == {"Vec", "Box", "AlignedVec", "MmapMut"}
\* Clone copies the bytes for these, and the handle alone for those.
DeepKinds == {"Vec", "Box", "AlignedVec"}
SharedKinds == {"Arc", "Rc", "Slice"}
\* Containers whose buffer is 16-aligned by construction.
AlignedKinds == {"AlignedVec", "Mmap", "MmapMut"}

\* The container types a wrapper is built for with Default::default().
DefaultKinds == {"Vec", "Arc"}

VARIABLES heap, wrappers, last, prev, crashed
vars == <<heap, wrappers, last, prev, crashed>>

BufIds == 1..MaxBufs
WIds == 1..MaxWrappers
None == [kind |-> "none"]
NoBuf == 0
FreeCell == [bytes |-> <<>>, addr |-> 0, rc |-> 0]
NoView == [hello |-> -1, world |-> -1]

\* ----------------------------------------------------------- the codec
RECURSIVE LEBytes(_, _)
\* n as k little-endian bytes (u64_le for k = 8).
LEBytes(n, k) == IF k = 0 THEN <<>> ELSE <<n % 256>> \o LEBytes(n \div 256, k - 1)

RECURSIVE FromLE(_)
FromLE(s) == IF s = <<>> THEN 0 ELSE s[1] + 256 * FromLE(Tail(s))

Zeros(k) == [i \in 1..k |-> 0]

\* rkyv::to_bytes(&ArchiveStub{..}): hello, 7 bytes of padding, world.
ToBytes(v) == <<v.hello>> \o Zeros(7) \o LEBytes(v.world, 8)

InputBytes(variant, v) ==
    CASE variant = "exact" -> ToBytes(v)
      [] variant = "trunc" -> SubSeq(ToBytes(v), 1, SIZE - 1)
      [] variant = "prefixed" -> Zeros(7) \o <<9>> \o ToBytes(v)
      [] OTHER -> <<>>

\* rkyv root position: len.saturating_sub(size_of::<T::Archived>()).
RootPos(len) == IF len >= SIZE THEN len - SIZE ELSE 0

\* The mutant of Validate: the alignment check without the bounds check.
ValidateNoBounds(data, addr) == (addr + RootPos(Len(data))) % ALIGN = 0

\* rkyv::access::<T::Archived, E>(bytes) succeeds.  The validator takes the
\* root at RootPos and refuses a root that does not lie inside the slice
\* or whose address in memory is not a multiple of the alignment of the
\* archived type; the fields of the record, a u8 and a u64_le, are valid
\* in every bit pattern.
Validate(data, addr) ==
    LET pos == RootPos(Len(data))
    IN  /\ pos + SIZE <= Len(data)
        /\ (addr + pos) % ALIGN = 0

\* The mutant of Decode: world read as a single byte.
DecodeNarrow(data) ==
    LET pos == RootPos(Len(data))
    IN  [hello |-> data[pos + 1], world |-> data[pos + 9]]

\* rkyv::access_unchecked: the archived record at the root position.
Decode(data) ==
    LET pos == RootPos(Len(data))
    IN  [hello |-> data[pos + 1],
         world |-> FromLE(SubSeq(data, pos + 9, pos + SIZE))]

\* The mutant of WriteField: the field written at the front of the buffer.
WriteFieldFront(data, f, x) ==
    IF f = "hello" THEN [data EXCEPT ![1] = x]
    ELSE [i \in 1..Len(data) |-> IF i \in 9..SIZE THEN LEBytes(x, 8)[i - 8] ELSE data[i]]

\* A store to a scalar field of the archived record through Pin<&mut _>.
WriteField(data, f, x) ==
    LET pos == RootPos(Len(data))
    IN  IF f = "hello" THEN [data EXCEPT ![pos + 1] = x]
        ELSE [i \in 1..Len(data) |->
                IF i \in (pos + 9)..(pos + SIZE) THEN LEBytes(x, 8)[i - pos - 8]
                ELSE data[i]]

\* ------------------------------------------------------- the containers
Live(w) == wrappers[w] # None
FreeW == {w \in WIds : ~Live(w)}
FreeB == {b \in BufIds : heap[b].rc = 0}
Min(S) == CHOOSE x \in S : \A y \in S : x <= y

\* The mutant of Bytes: Box<[u8]> hands out its slice short of the last byte.
BytesBoxShort(h, c) ==
    IF c.buf = NoBuf THEN [data |-> <<>>, addr |-> 1]
    ELSE IF c.kind = "Box" /\ Len(h[c.buf].bytes) > 0
         THEN [data |-> SubSeq(h[c.buf].bytes, 1, Len(h[c.buf].bytes) - 1),
               addr |-> h[c.buf].addr]
         ELSE [data |-> h[c.buf].bytes, addr |-> h[c.buf].addr]

\* StableBytes::bytes(&self) in heap h: the slice (contents and address)
\* of the container's buffer; an empty container holds a dangling empty
\* slice.
Bytes(h, c) ==
    IF c.buf = NoBuf THEN [data |-> <<>>, addr |-> 1]
    ELSE [data |-> h[c.buf].bytes, addr |-> h[c.buf].addr]

\* The validator would accept the container's slice as it is now.
Sound(c) == Validate(Bytes(heap, c).data, Bytes(heap, c).addr)

\* Where a new buffer of this container type may be placed.
Placement(kind) == IF kind \in AlignedKinds THEN {0} ELSE AddrSet

\* The last operation and what it was given and returned.
Blank ==
    [op |-> "init", w |-> 0, variant |-> "none", val |-> NoView, addr |-> 0,
     res |-> "none", view |-> NoView, field |-> "none", x |-> 0, old |-> NoView,
     src |-> 0, n |-> 0]

Init ==
    /\ heap = [b \in BufIds |-> FreeCell]
    /\ wrappers = [w \in WIds |-> None]
    /\ last = Blank
    /\ prev = Blank
    /\ crashed = FALSE

\* What each constructor is fed: every container type gets the serialized
\* stub, whole, cut short and empty; the read-only mapping also gets the
\* second record, and the writable mapping also gets the stub behind 8
\* other bytes (a file with a header).
InputsOf(kind) ==
    {<<"exact", stub>>, <<"trunc", stub>>, <<"empty", stub>>}
    \cup (IF kind = "Mmap" THEN {<<"exact", wide>>, <<"trunc", wide>>} ELSE {})
    \cup (IF kind = "MmapMut" THEN {<<"prefixed", stub>>} ELSE {})
\* What a read past the end of an empty buffer may find.
Garbage == {stub, wide}

\* A wrapper: its container (kind, buf), and two things the code does not
\* store: how the wrapper was made, and how often the validator has run
\* over the bytes of this wrapper or of the wrapper it was cloned from.
Wrapper(kind, buf, origin, checks) ==
    [kind |-> kind, buf |-> buf, origin |-> origin, checks |-> checks]

NLive == Cardinality({w \in WIds : Live(w)})

NewRecord(variant, v, addr, res, w) ==
    [Blank EXCEPT !.op = "new", !.variant = variant, !.val = v, !.addr = addr,
                  !.res = res, !.w = w, !.n = NLive]

\* The mutant of NewCore: the wrapper is built whatever the validator says.
NewCoreUnchecked(kind, variant, v, addr) ==
    /\ ~crashed
    /\ FreeB # {}
    /\ FreeW # {}
    /\ LET b == Min(FreeB)
           w == Min(FreeW)
           h1 == [heap EXCEPT ![b] = [bytes |-> InputBytes(variant, v), addr |-> addr, rc |-> 1]]
           sl == Bytes(h1, [kind |-> kind, buf |-> b])
           res == IF Validate(sl.data, sl.addr) THEN "Ok" ELSE "Err"
       IN  /\ heap' = h1
           /\ wrappers' = [wrappers EXCEPT ![w] = Wrapper(kind, b, "new", 1)]
           /\ last' = NewRecord(variant, v, addr, res, w)
    /\ UNCHANGED crashed

\* OwnedArchive::new(container): the caller's container holds the bytes
\* InputBytes(variant, v) at addr; rkyv::access runs once over
\* container.bytes(); `?` returns the error and drops the container,
\* otherwise the container moves into the wrapper.
NewCore(kind, variant, v, addr) ==
    /\ ~crashed
    /\ FreeB # {}
    /\ LET b == Min(FreeB)
           h1 == [heap EXCEPT ![b] = [bytes |-> InputBytes(variant, v), addr |-> addr, rc |-> 1]]
           sl == Bytes(h1, [kind |-> kind, buf |-> b])
       IN  IF Validate(sl.data, sl.addr)
           THEN /\ FreeW # {}
                /\ heap' = h1
                /\ wrappers' = [wrappers EXCEPT ![Min(FreeW)] = Wrapper(kind, b, "new", 1)]
                /\ last' = NewRecord(variant, v, addr, "Ok", Min(FreeW))
           ELSE /\ heap' = heap
                /\ wrappers' = wrappers
                /\ last' = NewRecord(variant, v, addr, "Err", 0)
    /\ UNCHANGED crashed

\* The process dies on an access outside any mapping or a trapped
\* misaligned access.
Crash ==
    /\ crashed' = TRUE
    /\ last' = [Blank EXCEPT !.op = "crash"]
    /\ heap' = [b \in BufIds |-> FreeCell]
    /\ wrappers' = [w \in WIds |-> None]

ReadRecord(w, view) == [Blank EXCEPT !.op = "deref", !.w = w, !.view = view]

\* The mutant of DerefCore: the read path runs the validator again.
DerefCoreChecked(w) ==
    /\ ~crashed
    /\ Live(w)
    /\ Sound(wrappers[w])
    /\ wrappers' = [wrappers EXCEPT ![w].checks = @ + 1]
    /\ last' = ReadRecord(w, Decode(Bytes(heap, wrappers[w]).data))
    /\ UNCHANGED <<heap, crashed>>

\* Deref::deref: rkyv::access_unchecked(self.container.bytes()), no
\* validation.  On a slice the validator would refuse the read is
\* undefined: too short, it reads past the buffer (any value, or a
\* fault); misaligned, it reads the record or faults.
DerefCore(w) ==
    /\ ~crashed
    /\ Live(w)
    /\ LET sl == Bytes(heap, wrappers[w])
       IN  \/ /\ Len(sl.data) >= SIZE
              /\ last' = ReadRecord(w, Decode(sl.data))
              /\ UNCHANGED <<heap, wrappers, crashed>>
           \/ /\ Len(sl.data) < SIZE
              /\ \E g \in Garbage : last' = ReadRecord(w, g)
              /\ UNCHANGED <<heap, wrappers, crashed>>
           \/ /\ ~Validate(sl.data, sl.addr)
              /\ Crash

\* The mutant of GetMutCore: bytes_mut() hands out a relocated buffer.
GetMutCoreRelocating(w, f, x) ==
    /\ ~crashed
    /\ Live(w)
    /\ wrappers[w].kind \in MutKinds
    /\ wrappers[w].buf # NoBuf
    /\ LET b == wrappers[w].buf
       IN  /\ \E a \in AddrSet :
                heap' = [heap EXCEPT ![b].bytes = WriteField(@, f, x), ![b].addr = a]
           /\ last' = [Blank EXCEPT !.op = "get_mut", !.w = w, !.field = f, !.x = x,
                                    !.old = Decode(heap[b].bytes)]
    /\ UNCHANGED <<wrappers, crashed>>

\* OwnedArchive::get_mut followed by a store to field f:
\* rkyv::access_unchecked_mut(self.container.bytes_mut()), no validation.
\* On a slice the validator would refuse the store is undefined: too
\* short, it faults (the empty containers dangle); misaligned, it stores
\* or faults.
GetMutCore(w, f, x) ==
    /\ ~crashed
    /\ Live(w)
    /\ wrappers[w].kind \in MutKinds
    /\ LET sl == Bytes(heap, wrappers[w])
           b == wrappers[w].buf
       IN  \/ /\ Len(sl.data) >= SIZE
              /\ heap' = [heap EXCEPT ![b].bytes = WriteField(@, f, x)]
              /\ last' = [Blank EXCEPT !.op = "get_mut", !.w = w, !.field = f, !.x = x,
                                       !.old = Decode(sl.data)]
              /\ UNCHANGED <<wrappers, crashed>>
           \/ /\ ~Validate(sl.data, sl.addr)
              /\ Crash

\* Container::clone and the wrapper around it.  deep: the bytes are copied
\* into a new buffer of the same container type; otherwise the handle is
\* copied and the buffer gains an owner.
CloneWith(w, deep) ==
    /\ ~crashed
    /\ Live(w)
    /\ wrappers[w].kind \notin MmapKinds
    /\ FreeW # {}
    /\ LET c == wrappers[w]
           n == Min(FreeW)
       IN  /\ IF c.buf = NoBuf
              THEN /\ heap' = heap
                   /\ wrappers' = [wrappers EXCEPT ![n] = Wrapper(c.kind, NoBuf, "clone", c.checks)]
              ELSE IF deep
              THEN /\ FreeB # {}
                   /\ \E a \in Placement(c.kind) :
                        heap' = [heap EXCEPT ![Min(FreeB)] =
                                    [bytes |-> heap[c.buf].bytes, addr |-> a, rc |-> 1]]
                   /\ wrappers' = [wrappers EXCEPT ![n] = Wrapper(c.kind, Min(FreeB), "clone", c.checks)]
              ELSE /\ heap' = [heap EXCEPT ![c.buf].rc = @ + 1]
                   /\ wrappers' = [wrappers EXCEPT ![n] = Wrapper(c.kind, c.buf, "clone", c.checks)]
           /\ last' = [Blank EXCEPT !.op = "clone", !.src = w, !.w = n]
    /\ UNCHANGED crashed

\* The mutant of CloneCore: every clone shares the original's buffer.
CloneCoreShared(w) == CloneWith(w, FALSE)

\* The mutant of CloneCore: every clone copies the bytes.
CloneCoreDeep(w) == CloneWith(w, TRUE)

\* Clone for OwnedArchive: self.container.clone(); Vec<u8>, Box<[u8]> and
\* AlignedVec copy their bytes, Arc<[u8]>, Rc<[u8]> and &[u8] copy the
\* handle.  ContractMmap and ContractMmapMut are not Clone.
CloneCore(w) == CloneWith(w, wrappers[w].kind \in DeepKinds)

\* The wrapper goes out of scope and its container is dropped; a buffer
\* without owners is gone.
DropCore(w) ==
    /\ ~crashed
    /\ Live(w)
    /\ LET b == wrappers[w].buf
       IN  heap' = IF b = NoBuf THEN heap
                   ELSE IF heap[b].rc = 1 THEN [heap EXCEPT ![b] = FreeCell]
                   ELSE [heap EXCEPT ![b].rc = @ - 1]
    /\ wrappers' = [wrappers EXCEPT ![w] = None]
    /\ last' = [Blank EXCEPT !.op = "drop"]
    /\ UNCHANGED crashed

\* #[derive(Default)]: OwnedArchive { container: C::default(), _type }, an
\* empty container and no validation.
DefaultCore(kind) ==
    /\ ~crashed
    /\ FreeW # {}
    /\ wrappers' = [wrappers EXCEPT ![Min(FreeW)] = Wrapper(kind, NoBuf, "default", 0)]
    /\ last' = [Blank EXCEPT !.op = "default", !.w = Min(FreeW)]
    /\ UNCHANGED <<heap, crashed>>

\* ---------------------------------------------------- the public surface
New(kind, variant, v, addr) == NewCore(kind, variant, v, addr) /\ UNCHANGED prev
\* OwnedArchive::from_mmap: Self::new(ContractMmap(container)).
FromMmap(variant, v) == NewCore("Mmap", variant, v, 0) /\ UNCHANGED prev
\* OwnedArchive::from_mmap_mut: Self::new(ContractMmapMut(container)).
FromMmapMut(variant, v) == NewCore("MmapMut", variant, v, 0) /\ UNCHANGED prev
Default(kind) == DefaultCore(kind) /\ UNCHANGED prev
Deref(w) == DerefCore(w) /\ UNCHANGED prev
\* Debug::fmt: self.deref().fmt(f); the text written is not modelled.
Fmt(w) == DerefCore(w) /\ UNCHANGED prev
GetMut(w, f, x) == GetMutCore(w, f, x) /\ UNCHANGED prev
Clone(w) == CloneCore(w) /\ UNCHANGED prev
Drop(w) == DropCore(w) /\ UNCHANGED prev

Next ==
    \/ \E k \in NewKinds : \E i \in InputsOf(k), a \in Placement(k) : New(k, i[1], i[2], a)
    \/ \E i \in InputsOf("Mmap") : FromMmap(i[1], i[2])
    \/ \E i \in InputsOf("MmapMut") : FromMmapMut(i[1], i[2])
    \/ \E k \in DefaultKinds : Default(k)
    \/ \E w \in WIds : Deref(w)
    \/ \E w \in WIds : Fmt(w)
    \/ \E w \in WIds : \E x \in Hellos : GetMut(w, "hello", x)
    \/ \E w \in WIds : \E x \in Worlds : GetMut(w, "world", x)
    \/ \E w \in WIds : Clone(w)
    \/ \E w \in WIds : Drop(w)

Spec == Init /\ [][Next]_vars

\* ------------------------------------------- constructor calls in pairs
\* The same constructors and the drop, with the outcome of the construction
\* before the last one kept in prev.
Remember == IF last.op = "new" THEN last ELSE prev
NewDet(kind, variant, v, addr) == NewCore(kind, variant, v, addr) /\ prev' = Remember
FromMmapDet(variant, v) == NewCore("Mmap", variant, v, 0) /\ prev' = Remember
FromMmapMutDet(variant, v) == NewCore("MmapMut", variant, v, 0) /\ prev' = Remember
DropDet(w) == DropCore(w) /\ prev' = Remember

NextDet ==
    \/ \E k \in NewKinds : \E i \in InputsOf(k), a \in Placement(k) : NewDet(k, i[1], i[2], a)
    \/ \E i \in InputsOf("Mmap") : FromMmapDet(i[1], i[2])
    \/ \E i \in InputsOf("MmapMut") : FromMmapMutDet(i[1], i[2])
    \/ \E w \in WIds : DropDet(w)

SpecDet == Init /\ [][NextDet]_vars

\* ------------------------------------------------------------ properties
\* The slice the last constructor call was given.
LastInput == InputBytes(last.variant, last.val)
\* The bytes and the record a live wrapper holds now.
DataOf(w) == Bytes(heap, wrappers[w]).data
ViewOf(w) == Decode(DataOf(w))
\* The number of wrappers whose container refers to buffer b.
Holders(b) == Cardinality({w \in WIds : Live(w) /\ wrappers[w].buf = b})

\* C1: a constructor call (new, from_mmap, from_mmap_mut) returns Ok exactly
\* when the validator accepts the container's slice; on Ok there is one
\* wrapper more and it owns the container with the bytes given; on Err
\* there is no new wrapper and the container is gone: no buffer is left
\* without a wrapper that holds it.
C1_NewAllOrNothing ==
    last.op = "new" =>
        /\ last.res \in {"Ok", "Err"}
        /\ (last.res = "Ok") <=> Validate(LastInput, last.addr)
        /\ last.res = "Ok" =>
              /\ NLive = last.n + 1
              /\ Live(last.w)
              /\ wrappers[last.w].buf # NoBuf
              /\ DataOf(last.w) = LastInput
        /\ last.res = "Err" => NLive = last.n /\ last.w = 0
        /\ \A b \in BufIds : heap[b].rc = Holders(b)

C1_Witness ==
    /\ last.op = "new"
    /\ last.res = "Err"
    /\ last.variant = "exact"
    /\ NLive = 1

\* C2: every wrapper that exists was validated by a constructor, itself or
\* the wrapper it was cloned from.
C2_EveryWrapperValidated == \A w \in WIds : Live(w) => wrappers[w].checks >= 1

C4_SingleValidation ==
    \A w \in WIds : Live(w) =>
        /\ wrappers[w].checks <= 1
        /\ wrappers[w].origin = "new" => wrappers[w].checks = 1

C4_Witness ==
    /\ last.op = "deref"
    /\ wrappers[last.w].origin = "new"
    /\ wrappers[last.w].kind \in MutKinds
    /\ last.view.hello = 3

\* C5: after a store of x to a field through get_mut the wrapper's record
\* has x in that field and the other field as before, and a read through
\* deref returns the record the wrapper's bytes hold.
C5_MutationVisible ==
    /\ last.op = "get_mut" =>
          /\ last.field = "hello" =>
                ViewOf(last.w) = [hello |-> last.x, world |-> last.old.world]
          /\ last.field = "world" =>
                ViewOf(last.w) = [hello |-> last.old.hello, world |-> last.x]
    /\ last.op = "deref" /\ Len(DataOf(last.w)) >= SIZE => last.view = ViewOf(last.w)

C5_Witness ==
    /\ last.op = "get_mut"
    /\ wrappers[last.w].kind = "MmapMut"
    /\ Len(DataOf(last.w)) > SIZE
    /\ last.old = stub
    /\ last.field = "hello"
    /\ last.x = 3
    /\ ViewOf(last.w) = [hello |-> 3, world |-> 5]

C8_TruncatedRejected ==
    last.op = "new" /\ last.variant = "trunc" =>
        last.res = "Err" /\ last.w = 0 /\ NLive = last.n /\ ~crashed

C8_Witness ==
    /\ last.op = "new"
    /\ last.variant = "trunc"
    /\ last.addr = 0
    /\ last.res = "Err"

\* C9: while a wrapper lives its container stays of the same type on the
\* same buffer, the buffer stays at its address with its length, and its
\* bytes change only in a store through this wrapper's get_mut.
C9_ByteStability ==
    [][\A w \in WIds :
          Live(w) /\ wrappers'[w] # None =>
              /\ wrappers'[w].kind = wrappers[w].kind
              /\ wrappers'[w].buf = wrappers[w].buf
              /\ wrappers[w].buf # NoBuf =>
                    LET b == wrappers[w].buf
                    IN  /\ heap'[b].addr = heap[b].addr
                        /\ Len(heap'[b].bytes) = Len(heap[b].bytes)
                        /\ heap'[b].bytes # heap[b].bytes =>
                              last'.op = "get_mut" /\ last'.w = w]_vars

C9_Witness ==
    /\ last.op = "get_mut"
    /\ wrappers[last.w].origin = "clone"
    /\ \E w \in WIds :
          /\ Live(w)
          /\ w # last.w
          /\ wrappers[w].origin = "new"
          /\ wrappers[w].kind = wrappers[last.w].kind
          /\ DataOf(w) # DataOf(last.w)

====
